---- MODULE Spec2Model ----
(***************************************************************************)
(* Block bootstrap of tsbootstrap: BlockBootstrap (src/src/bootstrap.py)   *)
(* and the block engine it drives (BlockLengthSampler, BlockGenerator,     *)
(* BlockResampler).  One bootstrap instance is a record; a second instance *)
(* of the same configuration is run beside it in SpecPair.                 *)
(***************************************************************************)
EXTENDS Integers, Sequences, FiniteSets, TLC

\* ------------------------------------------------------------------ bounds
\* largest number of rows of X
MaxN == 3
\* largest number of columns of X
MaxCols == 1
\* values of the random stream are 0..MaxRaw
MaxRaw == 3
\* largest overlap_length / min_block_length keyword (1 is the default)
MaxKw == 2

\* blocks one generate_blocks call may emit before the model stops following
\* it (a loop that emits more never returns)
MaxBlocks == MaxN + 2

\* ------------------------------------------------------------- primitives
\* Python's None, for the integer-or-None attributes
None == -1

Min(a, b) == IF a < b THEN a ELSE b
Max(a, b) == IF a > b THEN a ELSE b

RECURSIVE SumLen(_)
SumLen(bs) == IF bs = <<>> THEN 0 ELSE Len(Head(bs)) + SumLen(Tail(bs))

RECURSIVE Concat(_)
Concat(bs) == IF bs = <<>> THEN <<>> ELSE Head(bs) \o Concat(Tail(bs))

Range(s) == {s[k] : k \in DOMAIN s}

\* int(np.sqrt(n)): the integer part of the square root
IntSqrt(n) == CHOOSE k \in 0..n : k * k <= n /\ (k + 1) * (k + 1) > n

\* round(sqrt(n)): the square root rounded to the nearest integer
RoundSqrt(n) ==
    LET r == IntSqrt(n) IN IF n > r * r + r THEN r + 1 ELSE r

\* round() of the raw draw r/2 (the stream value r counts halves): to the
\* nearest integer, ties to the even one
Round(r) ==
    LET q == r \div 2
    IN  IF r % 2 = 0 THEN q ELSE IF q % 2 = 0 THEN q ELSE q + 1

\* the row X[i] of an array with m columns: cell (i, j) holds i * m + j
Row(i, m) == [j \in 1..m |-> i * m + j]

\* ------------------------------------------------------ BlockLengthSampler
Families == {"none", "geometric"}

\* the family name the sampler works with: None is converted to "none"
Family(dist) == IF dist = "None" THEN "none" ELSE dist

\* whether one sample_length call takes a value from the stream
Consumes(dist) == Family(dist) # "none"

\* the sampler's constructor rejects a name that is no family
SamplerRejects(dist) == Family(dist) \notin Families

\* sample_length: round(L) for the fixed family; otherwise the raw draw
\* rounded and floored at 1, or at min_bl when the sampler was given one
SampleLength(dist, L, min_bl, raw) ==
    IF Family(dist) = "none" THEN Round(2 * L)
    ELSE Max(Max(Round(raw), 1), IF min_bl = None THEN 1 ELSE min_bl)

\* --------------------------------------------------------- BlockGenerator
\* the indices start, start+1, ..., start+len-1, modulo n when wrapping
Block(start, len, n, wrap) ==
    [k \in 1..len |-> IF wrap THEN (start + k - 1) % n ELSE start + k - 1]

OrDefault(v, d) == IF v = None THEN d ELSE v

\* the generator as constructed: nothing emitted, cursor at 0
NewGenerator(n, wrap, overlap, overlap_length, min_block_length) ==
    [N |-> n, wrap |-> wrap, overlap |-> overlap,
     overlap_length |-> OrDefault(overlap_length, 1),
     min_block_length |-> OrDefault(min_block_length, 1),
     cursor |-> 0, blocks |-> <<>>, finished |-> FALSE]

\* the configurations the generator refuses before it samples
GeneratorRejects(n, L, min_block_length) ==
    n < 1 \/ L > n \/ OrDefault(min_block_length, 1) > n

\* one pass of the non-overlapping loop with the sampled length len
NonOverlapStep(g, len) ==
    LET l    == IF g.wrap THEN len ELSE Min(len, g.N - g.cursor)
        cur  == g.cursor + l
        rest == g.N - cur
        mrg  == ~g.wrap /\ rest > 0 /\ rest < g.min_block_length
        b    == Block(g.cursor, IF mrg THEN l + rest ELSE l, g.N, g.wrap)
    IN  [g EXCEPT !.blocks = Append(g.blocks, b),
                  !.cursor = IF mrg THEN g.N ELSE cur,
                  !.finished = mrg \/ cur >= g.N]

\* one pass of the overlapping loop with the sampled length len
OverlapStep(g, len) ==
    LET s == IF g.wrap THEN g.cursor % g.N ELSE g.cursor
        l == IF g.wrap THEN len ELSE Min(len, g.N - s)
    IN  [g EXCEPT !.blocks = Append(g.blocks, Block(s, l, g.N, g.wrap)),
                  !.cursor = s + g.overlap_length,
                  !.finished = s + l >= g.N]

\* whether the loop can run another pass
CanStep(g) ==
    /\ ~g.finished
    /\ Len(g.blocks) < MaxBlocks
    /\ g.overlap /\ ~g.wrap => g.cursor < g.N

GenerateStep(g, len) ==
    IF g.overlap THEN OverlapStep(g, len) ELSE NonOverlapStep(g, len)

\* ------------------------------------------------------- validate_weights
\* an entry of a weight array: a finite real or complex number, or a
\* non-finite one
Num(x) == [fin |-> TRUE, re |-> x, im |-> 0]
NaN == [fin |-> FALSE, re |-> 0, im |-> 0]
Cx == [fin |-> TRUE, re |-> 1, im |-> 1]

\* a weight array: its number of dimensions, its shape[1] when it has two
\* or more, and its entries; present is FALSE for None
NoWeights == [present |-> FALSE, ndim |-> 1, cols |-> 1, vals |-> <<>>]
NdArray(ndim, cols, vals) ==
    [present |-> TRUE, ndim |-> ndim, cols |-> cols, vals |-> vals]

\* validate_weights with the negativity test left out
ValidateWeights_NoSign(w) ==
    IF \E k \in DOMAIN w.vals : ~w.vals[k].fin THEN "non-finite"
    ELSE IF \E k \in DOMAIN w.vals : w.vals[k].im # 0 THEN "complex"
    ELSE IF \A k \in DOMAIN w.vals : w.vals[k].re = 0 /\ w.vals[k].im = 0
         THEN "all zero"
    ELSE IF (w.ndim = 2 /\ w.cols # 1) \/ w.ndim > 2 THEN "shape"
    ELSE "ok"

\* validate_weights: the check that raises, in the order of the code, or
\* "ok" when it returns
ValidateWeights(w) ==
    IF \E k \in DOMAIN w.vals : ~w.vals[k].fin THEN "non-finite"
    ELSE IF \E k \in DOMAIN w.vals :
               \/ w.vals[k].re < 0
               \/ w.vals[k].re = 0 /\ w.vals[k].im < 0
         THEN "negative"
    ELSE IF \E k \in DOMAIN w.vals : w.vals[k].im # 0 THEN "complex"
    ELSE IF \A k \in DOMAIN w.vals : w.vals[k].re = 0 /\ w.vals[k].im = 0
         THEN "all zero"
    ELSE IF (w.ndim = 2 /\ w.cols # 1) \/ w.ndim > 2 THEN "shape"
    ELSE "ok"

\* --------------------------------------------------------- BlockResampler
NoResampler ==
    [N |-> 0, M |-> 0, blocks |-> <<>>, weights |-> <<>>, taper |-> "none",
     error |-> FALSE]

\* a resampler with uniform block weights and no taper
NewResampler(n, m, blocks) ==
    [N |-> n, M |-> m, blocks |-> blocks,
     weights |-> [k \in DOMAIN blocks |-> 1], taper |-> "none",
     error |-> FALSE]

\* the sum of the per-position weights at the indices of block b
RECURSIVE Aggregate(_, _)
Aggregate(b, w) ==
    IF b = <<>> THEN 0 ELSE w.vals[Head(b) + 1].re + Aggregate(Tail(b), w)

RECURSIVE Sum(_)
Sum(s) == IF s = <<>> THEN 0 ELSE Head(s) + Sum(Tail(s))

\* block-selection weights and taper of a resampler: the per-position
\* weights are validated and summed over each block; block k is then drawn
\* with probability weights[k] / Sum(weights). Weights that fail
\* validation, or leave no block with a positive weight, raise
WithWeights(r, block_weights, tapered_weights) ==
    IF ~block_weights.present THEN [r EXCEPT !.taper = tapered_weights]
    ELSE IF ValidateWeights(block_weights) # "ok" THEN [r EXCEPT !.error = TRUE]
    ELSE LET ws == [k \in DOMAIN r.blocks |->
                      Aggregate(r.blocks[k], block_weights)]
         IN  IF Sum(ws) = 0 THEN [r EXCEPT !.error = TRUE]
             ELSE [r EXCEPT !.weights = ws, !.taper = tapered_weights]

\* the block the stream value v selects under uniform weights
Select(blocks, v) == blocks[(v % Len(blocks)) + 1]

\* the first block whose cumulative weight exceeds u
RECURSIVE Pick(_, _, _)
Pick(ws, u, k) == IF u < ws[k] THEN k ELSE Pick(ws, u - ws[k], k + 1)

\* the block the stream value v selects under the resampler's weights
Chosen(r, v) == r.blocks[Pick(r.weights, v % Sum(r.weights), 1)]

\* one selection: the block is appended, cut to what is still missing
ResampleOne(r, drawn, v) ==
    LET b    == Chosen(r, v)
        room == r.N - SumLen(drawn)
    IN  Append(drawn, SubSeq(b, 1, Min(Len(b), room)))

\* the data rows of one drawn index array
BlockData(idx, m) == [k \in DOMAIN idx |-> Row(idx[k], m)]

\* window values are counted in hundredths; the floor 0.1 they are clipped to
TaperFloor == 10

Abs(x) == IF x < 0 THEN -x ELSE x

\* np.bartlett(len): the triangle with zeros at both ends, [1.] for len 1
Window(name, len) ==
    IF len = 1 THEN <<100>>
    ELSE [k \in 1..len |-> 100 - Abs((200 * (k - 1)) \div (len - 1) - 100)]

\* the tapering vector of a block of len indices: the window over the
\* block's length, clipped from below
TaperVector(name, len) ==
    [k \in 1..len |-> Max(Window(name, len)[k], TaperFloor)]

\* the taper of one selection, cut as the drawn block is; none without
\* tapered_weights
TaperOne(r, b, kept) ==
    IF r.taper = "none" THEN <<>>
    ELSE SubSeq(TaperVector(r.taper, Len(b)), 1, kept)

\* the rows of a drawn block multiplied by its taper (products are in
\* hundredths); unchanged without a taper
TaperedData(rows, tv) ==
    IF tv = <<>> THEN rows
    ELSE [k \in DOMAIN rows |-> [j \in DOMAIN rows[k] |-> rows[k][j] * tv[k]]]

\* ------------------------------------------------------- BlockBootstrap
\* the rng setter dropping the seed: every instance gets default_rng()
CheckGenerator_Unseeded(value) == None

\* rng setter: None gives a generator seeded from the system, an integer a
\* generator seeded with it
CheckGenerator(value) == value

\* the default taken from one row too few: int(np.sqrt(X.shape[0] - 1))
AvgBlockLength_OffByOne(self, n) ==
    IF self.block_length # None THEN self.block_length ELSE IntSqrt(n - 1)

\* the default used even when block_length is set
AvgBlockLength_Sqrt(self, n) == IntSqrt(n)

\* the default rounded to the nearest integer: round(np.sqrt(X.shape[0]))
AvgBlockLength_Rounded(self, n) ==
    IF self.block_length # None THEN self.block_length ELSE RoundSqrt(n)

\* a value assigned to rng: None, an integer (v, or 2**32 + v when over), a
\* Generator object (seeded with v and advanced pos values), or a value of
\* another type (a float, a string)
RngValue(kind, v, over, pos) ==
    [kind |-> kind, v |-> v, over |-> over, pos |-> pos]

\* the seed is no non-negative integer less than 2**32
SeedRejected(value) ==
    value.kind = "int" /\ (value.over \/ value.v < 0)

\* the setter taking any number for a seed
RngSetterRaises_Floats(value) ==
    IF value.kind = "none" THEN "ok"
    ELSE IF value.kind \notin {"generator", "int", "float"} THEN "TypeError"
    ELSE IF SeedRejected(value) THEN "ValueError"
    ELSE "ok"

\* rng setter: what the assignment self.rng = value raises, "ok" if nothing
RngSetterRaises(value) ==
    IF value.kind = "none" THEN "ok"
    ELSE IF value.kind \notin {"generator", "int"} THEN "TypeError"
    ELSE IF SeedRejected(value) THEN "ValueError"
    ELSE "ok"

\* rng setter: the object after self.rng = value; an assignment that raises
\* leaves self._rng as it was
RngSetter(self, value) ==
    IF RngSetterRaises(value) # "ok" THEN self
    ELSE IF value.kind = "none"
         THEN [self EXCEPT !.rng = CheckGenerator(None), !.pos = 0]
    ELSE IF value.kind = "generator"
         THEN [self EXCEPT !.rng = CheckGenerator(value.v), !.pos = value.pos]
    ELSE [self EXCEPT !.rng = CheckGenerator(value.v), !.pos = 0]

\* validate_rng(rng, allow_seed): what it raises, "ok" if it returns a
\* Generator
ValidateRng(rng, allow_seed) ==
    IF rng.kind = "none" THEN "ok"
    ELSE IF allow_seed
         THEN IF rng.kind \notin {"generator", "int"} THEN "TypeError"
              ELSE IF rng.kind = "int" /\ (rng.v < 0 \/ rng.over)
                   THEN "ValueError"
              ELSE "ok"
    ELSE IF rng.kind # "generator" THEN "TypeError"
    ELSE "ok"

\* avg_block_length handed to the BlockLengthSampler
AvgBlockLength(self, n) ==
    IF self.block_length # None THEN self.block_length ELSE IntSqrt(n)

\* min_block_length the BlockLengthSampler is constructed with
SamplerMinBlockLength(self) == None

\* the sampler constructed without the distribution name (its default)
SamplerDistribution_Default(self) == "None"

\* block_length_distribution the BlockLengthSampler is constructed with
SamplerDistribution(self) == self.block_length_distribution

\* BlockBootstrap.__init__; cls is the class of the object, args the
\* arguments the constructor was called with
NewBootstrap(nb, rng, block_length, dist, wrap, overlap, combine, ol, mbl) ==
    [n_bootstraps |-> nb,
     rng |-> CheckGenerator(rng), pos |-> 0,
     block_length |-> block_length,
     block_length_distribution |-> dist,
     wrap_around_flag |-> wrap,
     overlap_flag |-> overlap,
     combine_generation_and_sampling_flag |-> combine,
     block_weights |-> NoWeights,
     tapered_weights |-> "none",
     cls |-> "BlockBootstrap",
     args |-> [block_length_distribution |-> dist,
               wrap_around_flag |-> wrap, overlap_flag |-> overlap,
               combine_generation_and_sampling_flag |-> combine],
     overlap_length |-> ol,
     min_block_length |-> mbl,
     blocks |-> <<>>,
     block_resampler |-> NoResampler,
     pc |-> "idle", calls |-> 0, yielded |-> 0, X |-> [n |-> 0, m |-> 0],
     gen |-> NewGenerator(0, FALSE, FALSE, None, None),
     sampled |-> None,
     res |-> NoResampler,
     drawn |-> <<>>, data |-> <<>>, taper |-> <<>>]

\* super().__init__(**kwargs) of the subclasses
FromKwargs(kw) ==
    NewBootstrap(kw.n_bootstraps, kw.rng, kw.block_length,
                 kw.block_length_distribution, kw.wrap_around_flag,
                 kw.overlap_flag, kw.combine_generation_and_sampling_flag,
                 kw.overlap_length, kw.min_block_length)

MovingBlockBootstrap(kw) ==
    [FromKwargs(kw) EXCEPT !.cls = "MovingBlockBootstrap",
                           !.overlap_flag = TRUE,
                           !.wrap_around_flag = FALSE,
                           !.block_length_distribution = "None"]

StationaryBlockBootstrap(kw) ==
    [FromKwargs(kw) EXCEPT !.cls = "StationaryBlockBootstrap",
                           !.overlap_flag = TRUE,
                           !.wrap_around_flag = FALSE,
                           !.block_length_distribution = "geometric"]

CircularBlockBootstrap(kw) ==
    [FromKwargs(kw) EXCEPT !.cls = "CircularBlockBootstrap",
                           !.overlap_flag = TRUE,
                           !.wrap_around_flag = TRUE,
                           !.block_length_distribution = "None"]

\* the subclass leaving the overlap_flag of its keyword arguments in place
NonOverlappingBlockBootstrap_KeepsOverlap(kw) ==
    [FromKwargs(kw) EXCEPT !.cls = "NonOverlappingBlockBootstrap",
                           !.wrap_around_flag = FALSE,
                           !.block_length_distribution = "None"]

NonOverlappingBlockBootstrap(kw) ==
    [FromKwargs(kw) EXCEPT !.cls = "NonOverlappingBlockBootstrap",
                           !.overlap_flag = FALSE,
                           !.wrap_around_flag = FALSE,
                           !.block_length_distribution = "None"]

\* BartlettsBootstrap(**kw): a BaseBlockBootstrap of type 'moving' with
\* tapered_weights=np.bartlett; its samples are those of the
\* MovingBlockBootstrap it holds as bootstrap_instance
BartlettsBootstrap(kw) ==
    [MovingBlockBootstrap(kw) EXCEPT !.cls = "BartlettsBootstrap",
                                     !.tapered_weights = "bartlett"]

\* BaseBlockBootstrap.bootstrap_type_dict
BootstrapTypeDict ==
    [nonoverlapping |-> "NonOverlappingBlockBootstrap",
     moving |-> "MovingBlockBootstrap",
     stationary |-> "StationaryBlockBootstrap",
     circular |-> "CircularBlockBootstrap"]

Classes == {"BlockBootstrap", "MovingBlockBootstrap",
            "StationaryBlockBootstrap", "CircularBlockBootstrap",
            "NonOverlappingBlockBootstrap"}

\* cls(**kw)
Construct(cls, kw) ==
    CASE cls = "MovingBlockBootstrap" -> MovingBlockBootstrap(kw)
      [] cls = "StationaryBlockBootstrap" -> StationaryBlockBootstrap(kw)
      [] cls = "CircularBlockBootstrap" -> CircularBlockBootstrap(kw)
      [] cls = "NonOverlappingBlockBootstrap" -> NonOverlappingBlockBootstrap(kw)
      [] OTHER -> FromKwargs(kw)

\* _generate_blocks calling generate_blocks(overlap_flag=True) whatever the
\* instance's overlap_flag is
StartGenerate_AlwaysOverlap(self, n) ==
    NewGenerator(n, self.wrap_around_flag, TRUE,
                 self.overlap_length, self.min_block_length)

\* _generate_blocks passing input_length=X.shape[1], the number of columns
StartGenerate_Columns(self, n) ==
    NewGenerator(self.X.m, self.wrap_around_flag, self.overlap_flag,
                 self.overlap_length, self.min_block_length)

\* _generate_blocks up to the generator's construction
StartGenerate(self, n) ==
    NewGenerator(n, self.wrap_around_flag, self.overlap_flag,
                 self.overlap_length, self.min_block_length)

\* the cache never consulted: blocks are generated on every call
MustGenerate_Always(self) == TRUE

\* the blocks are generated in this call
MustGenerate(self) ==
    self.combine_generation_and_sampling_flag \/ self.blocks = <<>>

\* entry of _generate_samples_single_bootstrap(X), X of shape (n, m)
BeginSample(self, n, m) ==
    LET base == [self EXCEPT !.X = [n |-> n, m |-> m], !.calls = @ + 1,
                             !.drawn = <<>>, !.data = <<>>, !.taper = <<>>,
                             !.sampled = None]
    IN  IF MustGenerate(self)
        THEN IF \/ SamplerRejects(SamplerDistribution(self))
                \/ GeneratorRejects(n, AvgBlockLength(self, n),
                                    self.min_block_length)
             THEN [base EXCEPT !.pc = "raised"]
             ELSE [base EXCEPT !.pc = "gen", !.gen = StartGenerate(base, n),
                               !.res = NoResampler]
        ELSE [base EXCEPT !.pc = "resample", !.res = self.block_resampler]

\* the BlockResampler built on the transposed array: X of shape (m, n)
BuildResampler_Transposed(self, blocks) ==
    WithWeights(NewResampler(self.X.m, self.X.n, blocks),
                self.block_weights, self.tapered_weights)

\* the BlockResampler constructed without block_weights
BuildResampler_NoWeights(self, blocks) ==
    WithWeights(NewResampler(self.X.n, self.X.m, blocks),
                NoWeights, self.tapered_weights)

\* the BlockResampler constructed without tapered_weights
BuildResampler_NoTaper(self, blocks) ==
    WithWeights(NewResampler(self.X.n, self.X.m, blocks),
                self.block_weights, "none")

\* BlockResampler(X=X, blocks=blocks, rng=self.rng, ...)
BuildResampler(self, blocks) ==
    WithWeights(NewResampler(self.X.n, self.X.m, blocks),
                self.block_weights, self.tapered_weights)

\* the blocks cached as soon as they are generated, before the
\* BlockResampler is built
GenPass_CachesBlocks(self, v) ==
    LET len == SampleLength(SamplerDistribution(self),
                            AvgBlockLength(self, self.X.n),
                            SamplerMinBlockLength(self), v)
        g   == GenerateStep(self.gen, len)
        used == IF Consumes(SamplerDistribution(self)) THEN 1 ELSE 0
        r   == BuildResampler(self, g.blocks)
    IN  [self EXCEPT !.gen = g,
                     !.sampled = len,
                     !.pos = @ + used,
                     !.pc = IF ~g.finished THEN "gen"
                            ELSE IF r.error THEN "raised" ELSE "resample",
                     !.blocks = IF g.finished THEN g.blocks ELSE @,
                     !.res = IF g.finished /\ ~r.error THEN r ELSE @]

\* one pass of generate_blocks with stream value v; the last pass builds the
\* BlockResampler
GenPass(self, v) ==
    LET len == SampleLength(SamplerDistribution(self),
                            AvgBlockLength(self, self.X.n),
                            SamplerMinBlockLength(self), v)
        g   == GenerateStep(self.gen, len)
        used == IF Consumes(SamplerDistribution(self)) THEN 1 ELSE 0
        r   == BuildResampler(self, g.blocks)
    IN  [self EXCEPT !.gen = g,
                     !.sampled = len,
                     !.pos = @ + used,
                     !.pc = IF ~g.finished THEN "gen"
                            ELSE IF r.error THEN "raised" ELSE "resample",
                     !.res = IF g.finished /\ ~r.error THEN r ELSE @]

\* the data of a drawn block taken from the whole block, not from what was
\* kept of it
DrawPass_FullData(self, v) ==
    LET d    == ResampleOne(self.res, self.drawn, v)
        full == SumLen(d) >= self.res.N
        keep == full /\ ~self.combine_generation_and_sampling_flag
        tv   == TaperOne(self.res, Chosen(self.res, v),
                         Len(Chosen(self.res, v)))
    IN  [self EXCEPT !.drawn = d,
                     !.taper = Append(@, tv),
                     !.data = Append(@, TaperedData(
                                  BlockData(Chosen(self.res, v), self.res.M),
                                  tv)),
                     !.pos = @ + 1,
                     !.pc = IF full THEN "done" ELSE "resample",
                     !.yielded = IF full THEN @ + 1 ELSE @,
                     !.blocks = IF keep THEN self.res.blocks ELSE @,
                     !.block_resampler = IF keep THEN self.res ELSE @]

\* one selection of resample_block_indices_and_data with stream value v; the
\* last one returns, and the cache is written unless generation is combined
DrawPass(self, v) ==
    LET d    == ResampleOne(self.res, self.drawn, v)
        full == SumLen(d) >= self.res.N
        keep == full /\ ~self.combine_generation_and_sampling_flag
        tv   == TaperOne(self.res, Chosen(self.res, v), Len(d[Len(d)]))
    IN  [self EXCEPT !.drawn = d,
                     !.taper = Append(@, tv),
                     !.data = Append(@, TaperedData(BlockData(d[Len(d)],
                                                              self.res.M), tv)),
                     !.pos = @ + 1,
                     !.pc = IF full THEN "done" ELSE "resample",
                     !.yielded = IF full THEN @ + 1 ELSE @,
                     !.blocks = IF keep THEN self.res.blocks ELSE @,
                     !.block_resampler = IF keep THEN self.res ELSE @]

\* ------------------------------------------------------------------ state
\* boot: the bootstrap instances; given: the rng argument each was
\* constructed with; arr: the shape (n, m) of the array X the caller passes;
\* checked: a weight array handed to validate_weights and what came of it
VARIABLES boot, given, arr, checked

vars == <<boot, given, arr, checked>>

Unchecked == [w |-> NoWeights, outcome |-> "none"]

Insts == DOMAIN boot

Lengths == {None} \cup 1..MaxN
Kws == {None} \cup 2..MaxKw
NBootstraps == {1, 2}
Rand == 0..MaxRaw

\* overlap_length is read by the overlapping loop alone
Configs(rng) ==
    {NewBootstrap(nb, rng, bl, d, w, o, c, ol, mbl) :
        nb \in NBootstraps, bl \in Lengths, d \in {"None", "geometric"}, w \in BOOLEAN,
        o \in BOOLEAN, c \in BOOLEAN,
        ol \in Kws, mbl \in Kws}

Arrays == [n : 1..MaxN, m : 1..MaxCols]

Init ==
    /\ checked = Unchecked
    /\ arr \in Arrays
    /\ given = <<None>>
    \* a second turn of the loop is followed for the default overlap_length
    \* and min_block_length, which the loop and the cache do not read
    /\ \E c \in {c \in Configs(None) :
                    /\ c.overlap_flag \/ c.overlap_length = None
                    /\ c.n_bootstraps = 1 \/ (c.overlap_length = None /\
                                               c.min_block_length = None)} :
          boot = <<c>>

\* two instances at the same stream state draw the same value
SameStream(a, b) == a.rng # None /\ a.rng = b.rng /\ a.pos = b.pos

Draws(S) ==
    {f \in [S -> Rand] :
        \A i \in S, j \in S : SameStream(boot[i], boot[j]) => f[i] = f[j]}

\* between two turns of the loop; an exception ends the iteration
Resting(self) == self.pc \in {"idle", "done"}

\* the loop running one turn more than n_bootstraps
MoreSamples_OneMore(self) == self.calls <= self.n_bootstraps

\* for _ in range(self.n_bootstraps): a turn is left
MoreSamples(self) == self.calls < self.n_bootstraps

\* get_n_splits
GetNSplits(self) == self.n_bootstraps

\* one turn of the loop of _generate_samples: the call of
\* _generate_samples_single_bootstrap(X)
Call ==
    /\ \A i \in Insts : Resting(boot[i]) /\ MoreSamples(boot[i])
    /\ boot' = [i \in Insts |-> BeginSample(boot[i], arr.n, arr.m)]
    /\ UNCHANGED <<given, arr, checked>>

Generating == {i \in Insts : boot[i].pc = "gen" /\ CanStep(boot[i].gen)}

GenStep ==
    /\ Generating # {}
    /\ \E f \in Draws(Generating) :
          boot' = [i \in Insts |->
                     IF i \in Generating THEN GenPass(boot[i], f[i])
                     ELSE boot[i]]
    /\ UNCHANGED <<given, arr, checked>>

Resampling == {i \in Insts : boot[i].pc = "resample"}

DrawStep ==
    /\ Generating = {}
    /\ Resampling # {}
    /\ \E f \in Draws(Resampling) :
          boot' = [i \in Insts |->
                     IF i \in Resampling THEN DrawPass(boot[i], f[i])
                     ELSE boot[i]]
    /\ UNCHANGED <<given, arr, checked>>

Next == Call \/ GenStep \/ DrawStep

Spec == Init /\ [][Next]_vars

\* the rng arguments of two instances: the same seed, two seeds, none
SeedPairs == {<<1, 1>>, <<1, 2>>, <<None, None>>}

\* two instances constructed with the same configuration (two draws each,
\* the default min_block_length), each with its own rng argument, and given
\* the same one-column array;
\* instances on separate streams are followed on arrays of at most two rows
InitPair ==
    /\ checked = Unchecked
    /\ arr \in {a \in Arrays : a.m = 1}
    /\ given \in SeedPairs
    /\ given[1] # given[2] \/ given[1] = None => arr.n <= 2
    /\ \E c \in {c \in Configs(None) : /\ c.overlap_flag \/ c.overlap_length = None
                                      /\ c.min_block_length = None
                                      /\ c.n_bootstraps = 2} :
          boot = [i \in 1..2 |-> [c EXCEPT !.rng = CheckGenerator(given[i])]]

SpecPair == InitPair /\ [][Next]_vars

\* the worked example: N = 10 rows, block_length = 3, distribution "none",
\* overlap_flag = wrap_around_flag = False
ExampleN == 10
ExampleL == 3

InitExample ==
    /\ checked = Unchecked
    /\ arr \in [n : {ExampleN}, m : 1..MaxCols]
    /\ given = <<None>>
    /\ \E nb \in NBootstraps, c \in BOOLEAN, mbl \in Kws :
          boot = <<NewBootstrap(nb, None, ExampleL, "None", FALSE, FALSE, c,
                                None, mbl)>>

SpecExample == InitExample /\ [][Next]_vars

\* the keyword arguments a constructor is called with: any string is taken
\* as block_length_distribution
Names == {"None", "geometric", "weibul"}

Kwargs ==
    [n_bootstraps : NBootstraps, rng : {None}, block_length : {None, 1},
     block_length_distribution : Names,
     wrap_around_flag : BOOLEAN, overlap_flag : BOOLEAN,
     combine_generation_and_sampling_flag : BOOLEAN,
     overlap_length : {None}, min_block_length : {None}]

\* one instance of any of the classes, constructed with any keywords and
\* given a one-column array
InitClasses ==
    /\ checked = Unchecked
    /\ arr \in {a \in Arrays : a.m = 1}
    /\ given = <<None>>
    /\ \E cls \in Classes, kw \in Kwargs : boot = <<Construct(cls, kw)>>

SpecClasses == InitClasses /\ [][Next]_vars

\* per-position weight arrays for an array of n rows: every array of 0s, 1s
\* and 2s, arrays starting with a negative, non-finite or complex entry
\* ([-1, 2, 3]), and a two-column array
PositionWeights(n) ==
    {NdArray(1, 1, vals) : vals \in [1..n -> {Num(0), Num(1), Num(2)}]}
    \cup {NdArray(1, 1, [k \in 1..n |-> IF k = 1 THEN bad ELSE Num(k)]) :
             bad \in {Num(-1), NaN, Cx}}
    \cup {NdArray(2, 2, [k \in 1..(2 * n) |-> Num(1)])}

\* tapered_weights: None or a window function
Tapers == {"none", "bartlett"}

\* one BlockBootstrap without wrap-around and with the default
\* overlap_length, drawn from once on a one-column array, constructed with
\* block_weights and tapered_weights, or one BartlettsBootstrap
InitWeights ==
    /\ checked = Unchecked
    /\ arr \in {a \in Arrays : a.m = 1}
    /\ given = <<None>>
    /\ \E c \in {c \in Configs(None) :
                    /\ c.overlap_length = None
                    /\ ~c.wrap_around_flag /\ c.min_block_length = None
                    /\ c.block_length \in {None, 1}
                    /\ c.n_bootstraps = 1
                    /\ ~c.combine_generation_and_sampling_flag},
          w \in {NoWeights} \cup PositionWeights(arr.n), t \in Tapers :
          \/ boot = <<[c EXCEPT !.block_weights = w, !.tapered_weights = t]>>
          \/ \E kw \in {k \in Kwargs : k.n_bootstraps = 1} :
                boot = <<BartlettsBootstrap(kw)>>

SpecWeights == InitWeights /\ [][Next]_vars

\* ------------------------------------------------ one instance, many arrays
\* largest number of runs of _generate_samples followed on one instance
MaxRuns == 2

\* block_length setter: None or an integer >= 1 is stored, anything else
\* raises ValueError and stores nothing
SetBlockLength(self, value) ==
    IF value # None /\ value < 1 THEN self
    ELSE [self EXCEPT !.block_length = value]

\* one BlockBootstrap that caches its blocks, yielding one sample per run
InitReuse ==
    /\ checked = Unchecked
    /\ arr \in {a \in Arrays : a.m = 1}
    /\ given = <<None>>
    /\ \E c \in {c \in Configs(None) :
                    /\ c.overlap_length = None /\ c.min_block_length = None
                    /\ c.n_bootstraps = 1
                    /\ ~c.combine_generation_and_sampling_flag} :
          boot = <<c>>

\* the caller, done with one run of _generate_samples, assigns block_length
\* and starts another run with another array; yielded counts the samples of
\* all runs
Again ==
    /\ \A i \in Insts : /\ boot[i].pc = "done" /\ ~MoreSamples(boot[i])
                        /\ boot[i].yielded < MaxRuns
    /\ \E a \in {a \in Arrays : a.m = 1}, value \in {None} \cup 0..MaxN :
          /\ arr' = a
          /\ boot' = [i \in Insts |->
                        [SetBlockLength(boot[i], value)
                            EXCEPT !.pc = "idle", !.calls = 0]]
    /\ UNCHANGED <<given, checked>>

NextReuse == Again \/ Call \/ GenStep \/ DrawStep

SpecReuse == InitReuse /\ [][NextReuse]_vars

\* ------------------------------------------------------------------ split
\* time_series_split(X, test_ratio=0.2): the rows of X_train, the leading
\* int(0.8 * n) rows of X
TrainRows(n) == (8 * n) \div 10

\* BlockBootstrap._check_input(X) raises ValueError: block_length is set
\* and greater than X.shape[0] (the rows of a 2-D array are of one length)
CheckInputRaises(self, n) ==
    self.block_length # None /\ self.block_length > n

\* one BlockBootstrap with any block_length, and the one-column array X
\* handed to split
InitSplit ==
    /\ checked = Unchecked
    /\ arr \in {a \in Arrays : a.m = 1}
    /\ given = <<None>>
    /\ \E c \in {c \in Configs(None) :
                    /\ c.overlap_length = None /\ c.min_block_length = None
                    /\ ~c.combine_generation_and_sampling_flag} :
          boot = <<c>>

\* split(X): _check_input(X) and the train/test split on entry, then one
\* turn of the loop of _generate_samples(X=X_train) for each sample
Split ==
    /\ \A i \in Insts : Resting(boot[i]) /\ MoreSamples(boot[i])
    /\ boot' = [i \in Insts |->
                  IF boot[i].calls = 0 /\ CheckInputRaises(boot[i], arr.n)
                  THEN [boot[i] EXCEPT !.pc = "raised"]
                  ELSE BeginSample(boot[i], TrainRows(arr.n), arr.m)]
    /\ UNCHANGED <<given, arr, checked>>

NextSplit == Split \/ GenStep \/ DrawStep

SpecSplit == InitSplit /\ [][NextSplit]_vars

\* largest number of entries of an array or a list handed to a validator
MaxW == 2

Entries == {Num(0), Num(1), Num(2), Num(-1), NaN, Cx}

\* arrays of 0 to 3 dimensions
WeightArrays ==
    {NdArray(0, 1, <<e>>) : e \in Entries}
    \cup UNION {{NdArray(1, 1, vals) : vals \in [1..len -> Entries]} :
                 len \in 0..MaxW}
    \cup UNION {{NdArray(2, 1, vals) : vals \in [1..len -> Entries]} :
                 len \in 0..MaxW}
    \cup {NdArray(2, 2, vals) : vals \in [1..2 -> Entries]}
    \cup {NdArray(3, 1, <<e>>) : e \in Entries}

InitValidate ==
    /\ checked \in [w : WeightArrays, outcome : {"pending"}]
    /\ arr = [n |-> 1, m |-> 1]
    /\ given = <<None>>
    /\ boot = <<NewBootstrap(1, None, None, "None", FALSE, FALSE, FALSE,
                             None, None)>>

\* validate_weights(checked.w)
Validate ==
    /\ checked.outcome = "pending"
    /\ checked' = [checked EXCEPT !.outcome = ValidateWeights(checked.w)]
    /\ UNCHANGED <<boot, given, arr>>

SpecValidate == InitValidate /\ [][Validate]_vars

\* ------------------------------------------------- validate_block_indices
\* a block of a block list: a numpy array of some dimension and dtype with
\* its entries, or something that is no array
IndexArray(ndim, integer, vals) ==
    [array |-> TRUE, ndim |-> ndim, integer |-> integer, vals |-> vals]
NoArray == [array |-> FALSE, ndim |-> 0, integer |-> FALSE, vals |-> <<>>]

\* the block list handed over: a list of blocks, or something that is no list
BlockList(bs) == [list |-> TRUE, blocks |-> bs]
NoList == [list |-> FALSE, blocks |-> <<>>]

\* validate_block_indices(block_indices, input_length): the checks in the
\* order of the code
ValidateBlockIndices(block_indices, input_length) ==
    LET bs == block_indices.blocks
    IN  IF ~block_indices.list THEN "TypeError"
        ELSE IF Len(bs) = 0 THEN "ValueError"
        ELSE IF \E k \in DOMAIN bs : ~bs[k].array THEN "TypeError"
        ELSE IF \E k \in DOMAIN bs : ~(bs[k].ndim = 1 /\ bs[k].integer)
             THEN "ValueError"
        ELSE IF \E k \in DOMAIN bs : Len(bs[k].vals) = 0 THEN "ValueError"
        ELSE IF \E k \in DOMAIN bs :
                   \E j \in DOMAIN bs[k].vals : ~(bs[k].vals[j] < input_length)
             THEN "ValueError"
        ELSE "ok"

\* index values from one below the first row to one past the last
IndexValues == (0 - 1)..MaxN

\* blocks: the 1-D integer arrays of up to MaxW indices, a 2-D array, an
\* array of floats and a block that is no array
IndexBlocks ==
    UNION {{IndexArray(1, TRUE, vals) : vals \in [1..len -> IndexValues]} :
             len \in 0..MaxW}
    \cup {IndexArray(2, TRUE, <<0>>), IndexArray(1, FALSE, <<0>>), NoArray}

\* block lists: no list, the empty list, and lists of well-formed blocks
\* [0] in which one block is any block
BlockLists ==
    {NoList, BlockList(<<>>)}
    \cup UNION {UNION {{BlockList([k \in 1..len |->
                                     IF k = p THEN b
                                     ELSE IndexArray(1, TRUE, <<0>>)]) :
                          b \in IndexBlocks} : p \in 1..len} :
                  len \in 1..MaxW}

InitIndices ==
    /\ checked \in [w : [block_indices : BlockLists, input_length : 1..MaxN],
                    outcome : {"pending"}]
    /\ arr = [n |-> 1, m |-> 1]
    /\ given = <<None>>
    /\ boot = <<NewBootstrap(1, None, None, "None", FALSE, FALSE, FALSE,
                             None, None)>>

\* validate_block_indices(checked.w.block_indices, checked.w.input_length)
ValidateIndices ==
    /\ checked.outcome = "pending"
    /\ checked' = [checked EXCEPT !.outcome =
                     ValidateBlockIndices(checked.w.block_indices,
                                          checked.w.input_length)]
    /\ UNCHANGED <<boot, given, arr>>

SpecIndices == InitIndices /\ [][ValidateIndices]_vars

\* ------------------------------------------------------ validate_integers
\* an element of a list or an array: an integer, or something else (0.5)
IntElem(v) == [int |-> TRUE, v |-> v]
NoIntElem == [int |-> FALSE, v |-> 0]

\* a value handed to validate_integers: an integer, a list, a numpy array
\* of some dimension and dtype, or something else (a float, a string)
IntValue(v) ==
    [kind |-> "int", ndim |-> 0, integer |-> TRUE, vals |-> <<IntElem(v)>>]
ListValue(es) == [kind |-> "list", ndim |-> 1, integer |-> FALSE, vals |-> es]
ArrayValue(ndim, integer, vs) ==
    [kind |-> "array", ndim |-> ndim, integer |-> integer, vals |-> vs]
OtherValue == [kind |-> "other", ndim |-> 0, integer |-> FALSE, vals |-> <<>>]

\* the body of the loop of validate_integers for one value
ValidateOne(value, min_value) ==
    CASE value.kind = "int" ->
            IF min_value # None /\ value.vals[1].v < min_value
            THEN "ValueError" ELSE "continue"
      [] value.kind = "list" ->
            IF Len(value.vals) = 0 THEN "TypeError"
            ELSE IF \E k \in DOMAIN value.vals : ~value.vals[k].int
                 THEN "TypeError"
            ELSE IF min_value # None /\
                    \E k \in DOMAIN value.vals : value.vals[k].v < min_value
                 THEN "ValueError"
            ELSE "continue"
      [] value.kind = "array" ->
            IF Len(value.vals) = 0 THEN "TypeError"
            ELSE IF value.ndim # 1 \/ ~value.integer THEN "TypeError"
            ELSE IF min_value # None /\
                    \E k \in DOMAIN value.vals : value.vals[k].v < min_value
                 THEN "ValueError"
            ELSE "continue"
      [] OTHER -> "TypeError"

\* validate_integers(*values, min_value=min_value): the first value that
\* raises decides, and the function returns None when none does
RECURSIVE ValidateIntegers(_, _)
ValidateIntegers(values, min_value) ==
    IF values = <<>> THEN "returns"
    ELSE LET one == ValidateOne(Head(values), min_value)
         IN  IF one # "continue" THEN one
             ELSE ValidateIntegers(Tail(values), min_value)

IntValues == 0..MaxKw

\* the values handed over: integers, lists of up to MaxW elements, 1-D
\* integer arrays of up to MaxW entries, a 2-D integer array, a 1-D array of
\* floats, and a value of another type
Values ==
    {IntValue(v) : v \in IntValues}
    \cup UNION {{ListValue(es) :
                   es \in [1..len -> {IntElem(v) : v \in IntValues}
                                     \cup {NoIntElem}]} : len \in 0..MaxW}
    \cup UNION {{ArrayValue(1, TRUE, vs) :
                   vs \in [1..len -> {IntElem(v) : v \in IntValues}]} :
                  len \in 0..MaxW}
    \cup {ArrayValue(2, TRUE, <<IntElem(1)>>),
          ArrayValue(1, FALSE, <<NoIntElem>>), OtherValue}

\* the argument lists: no value, one value, and one value before or after
\* an integer that no min_value rejects
ValueLists ==
    {<<>>} \cup {<<v>> : v \in Values}
    \cup {<<IntValue(MaxKw), v>> : v \in Values}
    \cup {<<v, IntValue(MaxKw)>> : v \in Values}

InitIntegers ==
    /\ checked \in [w : [values : ValueLists,
                         min_value : {None} \cup 1..MaxKw],
                    outcome : {"pending"}]
    /\ arr = [n |-> 1, m |-> 1]
    /\ given = <<None>>
    /\ boot = <<NewBootstrap(1, None, None, "None", FALSE, FALSE, FALSE,
                             None, None)>>

\* validate_integers(*checked.w.values, min_value=checked.w.min_value)
ValidateInts ==
    /\ checked.outcome = "pending"
    /\ checked' = [checked EXCEPT !.outcome =
                     ValidateIntegers(checked.w.values, checked.w.min_value)]
    /\ UNCHANGED <<boot, given, arr>>

SpecIntegers == InitIntegers /\ [][ValidateInts]_vars

\* --------------------------------------------------------- rng assignments
\* the values assigned: None, the integers -1, 0, 1 and 2**32, Generator
\* objects seeded by the system or with 1, fresh or advanced, a float and
\* a string
RngValues ==
    {RngValue("none", None, FALSE, 0)}
    \cup {RngValue("int", v, FALSE, 0) : v \in (0 - 1)..1}
    \cup {RngValue("int", 0, TRUE, 0)}
    \cup {RngValue("generator", s, FALSE, p) : s \in {None, 1}, p \in 0..1}
    \cup {RngValue("float", 1, FALSE, 0), RngValue("str", 0, FALSE, 0)}

\* one instance constructed with rng=None and given an array of at most two
\* rows; checked holds the last value assigned and what the assignment
\* raised
InitRng ==
    /\ checked = [w |-> RngValue("none", None, FALSE, 0), by |-> "__init__",
                  outcome |-> "ok"]
    /\ arr \in {a \in Arrays : a.m = 1 /\ a.n <= 2}
    /\ given = <<None>>
    /\ boot = <<RngSetter(NewBootstrap(2, None, None, "geometric", FALSE, FALSE,
                                       FALSE, None, None),
                          RngValue("none", None, FALSE, 0))>>

\* self.rng = value, between two turns of the loop
SetRng ==
    /\ \A i \in Insts : boot[i].pc \in {"idle", "done", "raised"}
    /\ \E value \in RngValues :
          /\ boot' = [i \in Insts |-> RngSetter(boot[i], value)]
          /\ checked' = [w |-> value, by |-> "setter",
                         outcome |-> RngSetterRaises(value)]
    /\ UNCHANGED <<given, arr>>

\* validate_rng(value), as the rng setter of a TimeSeriesSimulator calls it;
\* the bootstrap object is not involved
CheckRng ==
    /\ \A i \in Insts : boot[i].pc \in {"idle", "done", "raised"}
    /\ \E value \in RngValues :
          checked' = [w |-> value, by |-> "validate_rng",
                      outcome |-> ValidateRng(value, TRUE)]
    /\ UNCHANGED <<boot, given, arr>>

NextRng == SetRng \/ CheckRng \/ Call \/ GenStep \/ DrawStep

SpecRng == InitRng /\ [][NextRng]_vars

\* ------------------------------------------------------ BaseBlockBootstrap
\* BaseBlockBootstrap(bootstrap_type, **kw): the object itself and, when
\* bootstrap_type is given, the bootstrap_instance it constructs from the
\* same keyword arguments
BaseBlockBootstrap(bootstrap_type, kw) ==
    LET self == [FromKwargs(kw) EXCEPT !.cls = "BaseBlockBootstrap"]
    IN  IF bootstrap_type = "None" THEN <<self>>
        ELSE <<self, Construct(BootstrapTypeDict[bootstrap_type], kw)>>

\* the Generator object instance i holds: check_generator returns the
\* Generator it is given and makes a new one from a seed or from None
GeneratorObject(i) ==
    IF given[i].kind = "generator" THEN <<"argument">>
    ELSE <<"default_rng", i>>

\* the instance whose _generate_samples_single_bootstrap does the work: the
\* bootstrap_instance when there is one
Delegate == Len(boot)

\* instances holding the same Generator object see the same stream position
Shared(b) ==
    [i \in DOMAIN b |->
        IF i # Delegate /\ GeneratorObject(i) = GeneratorObject(Delegate)
        THEN [b[i] EXCEPT !.pos = b[Delegate].pos] ELSE b[i]]

BaseTypes == {"None"} \cup DOMAIN BootstrapTypeDict

\* a BaseBlockBootstrap of any bootstrap_type, constructed with rng=None, a
\* seed or a Generator, and given a one-column array
InitBase ==
    /\ checked = Unchecked
    /\ arr \in {a \in Arrays : a.m = 1}
    /\ \E t \in BaseTypes,
          r \in {v \in RngValues : RngSetterRaises(v) = "ok" /\ v.pos = 0},
          kw \in {k \in Kwargs : /\ ~k.wrap_around_flag /\ ~k.overlap_flag
                                 /\ k.block_length_distribution = "None"} :
          /\ boot = BaseBlockBootstrap(t, [kw EXCEPT !.rng = r.v])
          /\ given = [i \in DOMAIN BaseBlockBootstrap(t, kw) |-> r]

\* one turn of the loop of _generate_samples on the BaseBlockBootstrap: its
\* _generate_samples_single_bootstrap runs that of the delegate
BaseCall ==
    /\ Resting(boot[Delegate]) /\ Resting(boot[1]) /\ MoreSamples(boot[1])
    /\ boot' = [i \in Insts |->
                  IF i = Delegate THEN BeginSample(boot[i], arr.n, arr.m)
                  ELSE [boot[i] EXCEPT !.calls = @ + 1]]
    /\ UNCHANGED <<given, arr, checked>>

BaseGen ==
    /\ Generating # {}
    /\ \E f \in Draws(Generating) :
          boot' = Shared([i \in Insts |->
                            IF i \in Generating THEN GenPass(boot[i], f[i])
                            ELSE boot[i]])
    /\ UNCHANGED <<given, arr, checked>>

BaseDraw ==
    /\ Generating = {}
    /\ Resampling # {}
    /\ \E f \in Draws(Resampling) :
          boot' = Shared([i \in Insts |->
                            IF i \in Resampling THEN DrawPass(boot[i], f[i])
                            ELSE boot[i]])
    /\ UNCHANGED <<given, arr, checked>>

NextBase == BaseCall \/ BaseGen \/ BaseDraw

SpecBase == InitBase /\ [][NextBase]_vars

\* ----------------------------------------------------------------- claims
Returned(self) == self.pc = "done"
Generated(self) == self.pc \in {"resample", "done"}

\* every index of 0..n-1 lies in exactly one block
IsPartition(blocks, n) ==
    /\ Len(Concat(blocks)) = n
    /\ Range(Concat(blocks)) = 0..(n - 1)

\* C1: with overlap_flag=False and wrap_around_flag=False the blocks that
\* generate_blocks returns for an array of N rows are pairwise disjoint and
\* their union is {0,...,N-1}, whatever lengths the sampler returns.
C1_Partition ==
    \A i \in Insts :
        (Generated(boot[i]) /\ ~boot[i].overlap_flag
                            /\ ~boot[i].wrap_around_flag)
            => IsPartition(boot[i].res.blocks, boot[i].X.n)

C1_Witness ==
    \E i \in Insts :
        /\ Generated(boot[i])
        /\ ~boot[i].overlap_flag /\ ~boot[i].wrap_around_flag
        /\ boot[i].block_length_distribution = "geometric"
        /\ boot[i].X.n = MaxN
        /\ Len(boot[i].res.blocks) = 2

\* C2: one call of resample_block_indices_and_data returns index arrays of
\* total length N and data arrays of N rows in all, each row with the
\* source array's number of columns.
C2_ResampledShape ==
    \A i \in Insts :
        Returned(boot[i]) =>
            /\ Len(Concat(boot[i].drawn)) = boot[i].X.n
            /\ Len(Concat(boot[i].data)) = boot[i].X.n
            /\ \A k \in DOMAIN Concat(boot[i].data) :
                   DOMAIN Concat(boot[i].data)[k] = 1..boot[i].X.m

C2_Witness ==
    \E i \in Insts :
        /\ Returned(boot[i])
        /\ boot[i].X.n = MaxN
        /\ boot[i].overlap_flag /\ boot[i].wrap_around_flag
        /\ Len(boot[i].drawn) >= 2
        /\ Len(boot[i].drawn[Len(boot[i].drawn)])
              < Len(Select(boot[i].res.blocks, 0))

Emitted(self) == IF self.pc = "gen" THEN self.gen.blocks ELSE self.res.blocks

MinBlockLength(self) == OrDefault(self.min_block_length, 1)

\* consecutive indices, modulo n when wrap is set
Consecutive(b, n, wrap) ==
    \A k \in 1..(Len(b) - 1) :
        b[k + 1] = IF wrap THEN (b[k] + 1) % n ELSE b[k] + 1

\* C4: every block generate_blocks emits, in every mode, is non-empty, at
\* least min_block_length long, and holds consecutive indices of 0..N-1
\* (consecutive modulo N under wrap-around).
C4_BlocksWellFormed ==
    \A i \in Insts :
        boot[i].pc \in {"gen", "resample", "done"} =>
            \A k \in DOMAIN Emitted(boot[i]) :
                LET b == Emitted(boot[i])[k]
                IN  /\ Len(b) >= 1
                    /\ Len(b) >= MinBlockLength(boot[i])
                    /\ \A j \in DOMAIN b : 0 <= b[j] /\ b[j] < boot[i].X.n
                    /\ Consecutive(b, boot[i].X.n, boot[i].wrap_around_flag)

\* C5: without overlap and wrap-around a remainder shorter than
\* min_block_length is appended to the block before it, so the blocks cover
\* 0..N-1 exactly, the last one ends at N-1 and is at least
\* min_block_length long, and no block is shorter than min_block_length.
C5_TrailingMerge ==
    \A i \in Insts :
        (Generated(boot[i]) /\ ~boot[i].overlap_flag
                            /\ ~boot[i].wrap_around_flag) =>
            LET bs == boot[i].res.blocks
            IN  /\ IsPartition(bs, boot[i].X.n)
                /\ Len(bs[Len(bs)]) >= MinBlockLength(boot[i])
                /\ \A k \in DOMAIN bs : Len(bs[k]) >= MinBlockLength(boot[i])

\* the blocks of the worked example as the example states them
ExampleMerged == <<Block(0, 3, ExampleN, FALSE), Block(3, 3, ExampleN, FALSE),
                   Block(6, 4, ExampleN, FALSE)>>

\* the blocks the generator returns for the worked example
ExampleClipped == <<Block(0, 3, ExampleN, FALSE), Block(3, 3, ExampleN, FALSE),
                    Block(6, 3, ExampleN, FALSE), Block(9, 1, ExampleN, FALSE)>>

IsExample(self) ==
    /\ self.X.n = ExampleN /\ self.block_length = ExampleL
    /\ Family(self.block_length_distribution) = "none"
    /\ ~self.overlap_flag /\ ~self.wrap_around_flag
    /\ self.min_block_length = None

Lengths3(drawn) == Cardinality({k \in DOMAIN drawn : Len(drawn[k]) = 3})

IsPrefix(a, b) == Len(a) <= Len(b) /\ a = SubSeq(b, 1, Len(a))

Singletons(n) == [k \in 1..n |-> <<k - 1>>]

IsDegenerate(self) ==
    /\ self.block_length = 1
    /\ Family(self.block_length_distribution) = "none"
    /\ ~self.overlap_flag /\ ~self.wrap_around_flag

\* C8 as stated: with average block length 1, fixed family, no overlap and
\* no wrap-around, the N singletons are generated and each draw selects N
\* blocks, none truncated.
C8_Singletons ==
    \A i \in Insts :
        IsDegenerate(boot[i]) =>
            /\ Generated(boot[i]) => boot[i].res.blocks = Singletons(boot[i].X.n)
            /\ Returned(boot[i]) =>
                   /\ Len(boot[i].drawn) = boot[i].X.n
                   /\ \A k \in DOMAIN boot[i].drawn :
                          boot[i].drawn[k] \in Range(boot[i].res.blocks)

\* C8 amended: the same, for min_block_length unset or 1; a larger
\* min_block_length merges the last singletons into one block.
C8_SingletonsDefaultMin ==
    \A i \in Insts :
        (IsDegenerate(boot[i]) /\ MinBlockLength(boot[i]) = 1) =>
            /\ Generated(boot[i]) => boot[i].res.blocks = Singletons(boot[i].X.n)
            /\ Returned(boot[i]) =>
                   /\ Len(boot[i].drawn) = boot[i].X.n
                   /\ \A k \in DOMAIN boot[i].drawn :
                          boot[i].drawn[k] \in Range(boot[i].res.blocks)

C8_Witness ==
    \E i \in Insts :
        /\ IsDegenerate(boot[i]) /\ MinBlockLength(boot[i]) = 1
        /\ Returned(boot[i])
        /\ boot[i].X.n = MaxN
        /\ Len(boot[i].drawn) = MaxN
        /\ boot[i].drawn[1] = boot[i].drawn[2]

\* C9: with overlap_flag=True and no wrap-around the blocks returned cover
\* every index of 0..N-1 and none holds an index above N-1, for every
\* overlap_length >= 1.
C9_OverlapCovers ==
    \A i \in Insts :
        (Generated(boot[i]) /\ boot[i].overlap_flag
                            /\ ~boot[i].wrap_around_flag)
            => Range(Concat(boot[i].res.blocks)) = 0..(boot[i].X.n - 1)

C11_RejectedBeforeSampling ==
    \A i \in Insts :
        (boot[i].pc # "idle" /\
         (MinBlockLength(boot[i]) > boot[i].X.n \/
          (IF boot[i].block_length # None THEN boot[i].block_length
                                          ELSE IntSqrt(boot[i].X.n))
               > boot[i].X.n)) =>
            /\ boot[i].pc = "raised"
            /\ boot[i].sampled = None
            /\ boot[i].pos = 0
            /\ boot[i].gen.blocks = <<>> /\ boot[i].res = NoResampler
            /\ boot[i].drawn = <<>> /\ boot[i].blocks = <<>>

C11_Witness ==
    \E i \in Insts :
        /\ boot[i].pc = "raised"
        /\ boot[i].block_length_distribution = "geometric"
        /\ boot[i].block_length # None
        /\ boot[i].block_length > boot[i].X.n
        /\ boot[i].X.n >= 2

\* the name is none of the sampler's families
UnknownName(self) == Family(self.block_length_distribution) \notin Families

C13_StreamUntouchedOnValidationError ==
    \A i \in Insts :
        (boot[i].pc = "raised" /\ boot[i].calls = 1
            /\ boot[i].block_weights.present
            /\ ValidateWeights(boot[i].block_weights) # "ok")
            => boot[i].pos = 0

\* what the claim requires of the entries of an accepted array
EntriesAcceptable(w) ==
    /\ \A k \in DOMAIN w.vals : w.vals[k].fin
    /\ \A k \in DOMAIN w.vals : ~(w.vals[k].im = 0 /\ w.vals[k].re < 0)
    /\ \A k \in DOMAIN w.vals : w.vals[k].im = 0
    /\ ~(\A k \in DOMAIN w.vals : w.vals[k] = Num(0))

\* a resampler given the rejected per-position array raises and returns
\* no indices
RejectedByResampler(w) ==
    (w.ndim = 1 /\ Len(w.vals) >= 1) =>
        WithWeights(NewResampler(Len(w.vals), 1, Singletons(Len(w.vals))),
                    w, "none").error

PositionTotal(self, b) ==
    Sum([p \in DOMAIN b |-> self.block_weights.vals[b[p] + 1].re])

CacheStep(i) ==
    LET a == boot[i]
        b == boot'[i]
    IN  IF a.combine_generation_and_sampling_flag
        THEN /\ b.blocks = <<>> /\ b.block_resampler = NoResampler
             /\ b.calls # a.calls => b.pc \in {"gen", "raised"}
        ELSE IF a.blocks = <<>>
        THEN /\ b.pc = "done" =>
                  /\ b.calls = 1
                  /\ b.blocks = b.res.blocks /\ b.blocks # <<>>
                  /\ b.block_resampler = b.res
             /\ b.pc # "done" =>
                  b.blocks = <<>> /\ b.block_resampler = NoResampler
        ELSE /\ b.blocks = a.blocks
             /\ b.block_resampler = a.block_resampler
             /\ b.pc # "gen"
             /\ b.calls # a.calls =>
                  b.pc = "resample" /\ b.res = a.block_resampler

\* C17: with combine_generation_and_sampling_flag=False the partition and
\* the resampler are generated by the first draw alone, stored, and every
\* later draw uses the stored ones unchanged; with the flag True every
\* draw generates anew and blocks and block_resampler stay None.
C17_CacheLifecycle == [][\A i \in Insts : CacheStep(i)]_vars

C17_Witness ==
    \E i \in Insts :
        /\ ~boot[i].combine_generation_and_sampling_flag
        /\ boot[i].block_length_distribution = "geometric"
        /\ boot[i].calls = 2 /\ Returned(boot[i])
        /\ boot[i].sampled = None
        /\ boot[i].res = boot[i].block_resampler
        /\ Len(boot[i].blocks) >= 2

\* C18: a run of the loop of _generate_samples to its end yields exactly
\* n_bootstraps samples, one per call of
\* _generate_samples_single_bootstrap, and get_n_splits returns
\* n_bootstraps.
C18_YieldsNBootstraps ==
    \A i \in Insts :
        /\ boot[i].yielded <= boot[i].calls
        /\ boot[i].calls <= boot[i].n_bootstraps
        /\ Returned(boot[i]) => boot[i].yielded = boot[i].calls
        /\ (Returned(boot[i]) /\ boot[i].calls >= boot[i].n_bootstraps) =>
               /\ boot[i].yielded = boot[i].n_bootstraps
               /\ GetNSplits(boot[i]) = boot[i].yielded

C18_Witness ==
    \E i \in Insts :
        /\ Returned(boot[i]) /\ boot[i].n_bootstraps = 2
        /\ boot[i].yielded = 2 /\ boot[i].calls = 2
        /\ boot[i].combine_generation_and_sampling_flag

\* the three attributes a subclass sets after super().__init__
Flags(self) ==
    <<self.overlap_flag, self.wrap_around_flag, self.block_length_distribution>>

\* C19: whatever keyword arguments the constructor received, a
\* MovingBlockBootstrap has overlap_flag=True, wrap_around_flag=False and
\* block_length_distribution=None, a StationaryBlockBootstrap True, False
\* and "geometric", a CircularBlockBootstrap True, True and None, a
\* NonOverlappingBlockBootstrap False, False and None.
C19_SubclassFlags ==
    \A i \in Insts :
        /\ boot[i].cls = "MovingBlockBootstrap"
              => Flags(boot[i]) = <<TRUE, FALSE, "None">>
        /\ boot[i].cls = "StationaryBlockBootstrap"
              => Flags(boot[i]) = <<TRUE, FALSE, "geometric">>
        /\ boot[i].cls = "CircularBlockBootstrap"
              => Flags(boot[i]) = <<TRUE, TRUE, "None">>
        /\ boot[i].cls = "NonOverlappingBlockBootstrap"
              => Flags(boot[i]) = <<FALSE, FALSE, "None">>

C19_Witness ==
    \E i \in Insts :
        /\ boot[i].cls = "NonOverlappingBlockBootstrap"
        /\ boot[i].args.overlap_flag /\ boot[i].args.wrap_around_flag
        /\ boot[i].args.block_length_distribution = "geometric"
        /\ Returned(boot[i])
        /\ Flags(boot[i]) = <<FALSE, FALSE, "None">>

\* C20: a MovingBlockBootstrap or StationaryBlockBootstrap has
\* combine_generation_and_sampling_flag=False whatever keyword arguments
\* its constructor received.
C20_NeverCombined ==
    \A i \in Insts :
        boot[i].cls \in {"MovingBlockBootstrap", "StationaryBlockBootstrap"}
            => ~boot[i].combine_generation_and_sampling_flag

\* the fixed family with block_length unset: the sampler returns the
\* default average block length itself
UsesDefault(self) ==
    /\ self.block_length = None
    /\ Family(self.block_length_distribution) = "none"
    /\ self.sampled # None

\* C21 as stated: when block_length is unset the average block length used
\* to generate blocks for an array of N rows is round(sqrt(N)), for every
\* N >= 1.
C21_DefaultIsRoundedSqrt ==
    \A i \in Insts :
        UsesDefault(boot[i]) =>
            /\ boot[i].sampled = RoundSqrt(boot[i].X.n)
            /\ Len(boot[i].gen.blocks[1])
                 >= Min(RoundSqrt(boot[i].X.n), boot[i].X.n)

\* C21 amended: when block_length is unset the average block length used
\* is int(sqrt(N)), the square root with its fraction dropped, for every
\* N >= 1; the first block generated has at least that many indices.
C21_DefaultIsTruncatedSqrt ==
    \A i \in Insts :
        UsesDefault(boot[i]) =>
            /\ boot[i].sampled * boot[i].sampled <= boot[i].X.n
            /\ (boot[i].sampled + 1) * (boot[i].sampled + 1) > boot[i].X.n
            /\ Len(boot[i].gen.blocks[1]) >= boot[i].sampled

C21_Witness ==
    \E i \in Insts :
        /\ UsesDefault(boot[i])
        /\ boot[i].X.n = MaxN
        /\ Generated(boot[i])
        /\ boot[i].sampled # RoundSqrt(boot[i].X.n)

\* a block list as validate_block_indices documents it: a non-empty list of
\* non-empty 1-D integer arrays, every index within the range of X
WellFormedIndices(w) ==
    /\ w.block_indices.list
    /\ Len(w.block_indices.blocks) > 0
    /\ \A k \in DOMAIN w.block_indices.blocks :
          LET b == w.block_indices.blocks[k]
          IN  /\ b.array /\ b.ndim = 1 /\ b.integer
              /\ Len(b.vals) > 0
              /\ \A j \in DOMAIN b.vals :
                     0 <= b.vals[j] /\ b.vals[j] < w.input_length

\* C22: validate_block_indices raises an error for every malformed block
\* list (an empty list, a block with no indices, a block that is not 1-D
\* integer, an index idx < 0 or idx >= input_length) and returns without
\* error only when every index of every block satisfies
\* 0 <= idx < input_length.
C22_RejectsMalformedIndices ==
    checked.outcome \in {"ok", "TypeError", "ValueError"} =>
        (checked.outcome = "ok" <=> WellFormedIndices(checked.w))

\* an integer, a non-empty list of integers or a non-empty 1-D integer array
IsIntegers(value) ==
    \/ value.kind = "int"
    \/ /\ value.kind = "list" /\ Len(value.vals) > 0
       /\ \A k \in DOMAIN value.vals : value.vals[k].int
    \/ /\ value.kind = "array" /\ Len(value.vals) > 0
       /\ value.ndim = 1 /\ value.integer

\* an integer of the value (the scalar, a list element, an array element)
\* is less than min_value
BelowMin(value, min_value) ==
    /\ min_value # None
    /\ IsIntegers(value)
    /\ \E k \in DOMAIN value.vals : value.vals[k].v < min_value

\* C23: validate_integers raises TypeError whenever a value is not an
\* integer, a non-empty list of integers or a non-empty 1-D integer array,
\* and also raises TypeError whenever min_value is given and any integer is
\* less than min_value; it returns None for every other input.
C23_TypeErrorOrNone ==
    checked.outcome \in {"returns", "TypeError", "ValueError"} =>
        LET vs  == checked.w.values
            bad == \E k \in DOMAIN vs :
                      \/ ~IsIntegers(vs[k])
                      \/ BelowMin(vs[k], checked.w.min_value)
        IN  checked.outcome = IF bad THEN "TypeError" ELSE "returns"

\* the object holds a Generator: one seeded by the system or with a
\* non-negative seed, at some position of its stream
HoldsGenerator(self) ==
    /\ self.rng \in {None} \cup Nat
    /\ self.pos \in Nat

\* an assignment that raised left the object as it was
FailedAssignmentKeeps ==
    (checked' # checked /\ checked'.outcome # "ok") => boot' = boot

\* an assignment that was accepted installed the generator assigned
AcceptedAssignmentInstalls ==
    (checked' # checked /\ checked'.by = "setter" /\ checked'.outcome = "ok")
        => \A i \in Insts :
              /\ boot'[i].rng = checked'.w.v
              /\ boot'[i].pos = checked'.w.pos

\* C24 as stated: after any sequence of rng assignments the object's rng is
\* a Generator: None yields a default generator, a Generator or an integer
\* seed is accepted, and any other value (float, string) raises TypeError
\* and leaves the previously held generator unchanged.
C24_EveryIntegerAccepted ==
    /\ \A i \in Insts : HoldsGenerator(boot[i])
    /\ checked.w.kind \in {"none", "generator", "int"} => checked.outcome = "ok"
    /\ checked.w.kind \in {"float", "str"} => checked.outcome = "TypeError"

\* C24 amended: the object's rng is always a Generator: None yields a
\* default generator, a Generator or an integer seed in 0..2**32-1 is
\* accepted, an integer outside that range raises ValueError, any other
\* value (float, string) raises TypeError, and an assignment that raises
\* leaves the previously held generator unchanged.
C24_RngIsGenerator ==
    /\ [](/\ \A i \in Insts : HoldsGenerator(boot[i])
          /\ checked.w.kind \in {"none", "generator"} => checked.outcome = "ok"
          /\ checked.w.kind = "int" =>
                checked.outcome =
                    IF checked.w.over \/ checked.w.v < 0 THEN "ValueError"
                                                          ELSE "ok"
          /\ checked.w.kind \in {"float", "str"} =>
                checked.outcome = "TypeError")
    /\ [][FailedAssignmentKeeps /\ AcceptedAssignmentInstalls]_vars

C24_Witness ==
    /\ checked.by = "setter" /\ checked.w.kind = "float"
    /\ checked.outcome = "TypeError"
    /\ boot[1].rng = 1 /\ boot[1].pos >= 2
    /\ boot[1].pc = "done"

\* C25: all randomness of one bootstrap instance comes from a single
\* stream: over any sequence of block generations and draws (including
\* draws delegated by BaseBlockBootstrap to the instance selected by
\* bootstrap_type) the generator object used is the one configured on the
\* instance, never reseeded, replaced or duplicated, so the instance's
\* generator stands where the previous draw left the stream.
C25_SingleStream ==
    boot[1].calls >= 1 =>
        /\ GeneratorObject(Delegate) = GeneratorObject(1)
        /\ boot[Delegate].rng = boot[1].rng
        /\ boot[Delegate].pos = boot[1].pos

\* all of a sequence but its last element
Front(s) == SubSeq(s, 1, Len(s) - 1)

\* C26: in one resampling draw blocks are selected one at a time, with
\* replacement, and drawing stops at the first selection after which the
\* cumulative length is >= N: every drawn block except the last is a block
\* of the partition in full, only the last may be shortened, by dropping
\* trailing indices, so that the total is exactly N; the index array and the
\* data array of each drawn block have the same length.
C26_DrawStopsAtN ==
    \A i \in Insts :
        (boot[i].pc \in {"resample", "done"} /\ boot[i].drawn # <<>>) =>
            LET d == boot[i].drawn
            IN  /\ \A k \in DOMAIN Front(d) : d[k] \in Range(boot[i].res.blocks)
                /\ \E b \in Range(boot[i].res.blocks) : IsPrefix(d[Len(d)], b)
                /\ Len(d[Len(d)]) >= 1
                /\ SumLen(Front(d)) < boot[i].X.n
                /\ IF Returned(boot[i]) THEN SumLen(d) = boot[i].X.n
                                        ELSE SumLen(d) < boot[i].X.n
                /\ DOMAIN boot[i].data = DOMAIN d
                /\ \A k \in DOMAIN d : Len(boot[i].data[k]) = Len(d[k])

C26_Witness ==
    \E i \in Insts :
        /\ Returned(boot[i])
        /\ Len(boot[i].drawn) = 2
        /\ boot[i].drawn[1] \in Range(boot[i].res.blocks)
        /\ Len(boot[i].drawn[2]) < Len(boot[i].drawn[1])
        /\ IsPrefix(boot[i].drawn[2], boot[i].drawn[1])
        /\ Len(boot[i].data[2]) = Len(boot[i].drawn[2])

\* C27: generate_blocks terminates for every valid configuration: while the
\* loop runs the cursor (non-overlap) or the next block start (overlap) is
\* still below N, having advanced with every block emitted, so at most N
\* blocks are emitted; likewise a resampling draw ends after at most N
\* block selections because every block is non-empty.
C27_Terminates ==
    \A i \in Insts :
        /\ boot[i].pc = "gen" =>
              /\ Len(boot[i].gen.blocks) <= boot[i].X.n
              /\ boot[i].gen.finished \/ boot[i].gen.cursor < boot[i].X.n
                                      \/ boot[i].gen.wrap
              /\ CanStep(boot[i].gen)
        /\ boot[i].pc \in {"resample", "done"} =>
              /\ Len(boot[i].drawn) <= boot[i].X.n
              /\ \A k \in DOMAIN boot[i].res.blocks :
                     Len(boot[i].res.blocks[k]) >= 1

\* C28: if a draw raises (block generation, resampler construction or
\* resampling fails) the instance's cache is left as it was before the
\* draw: with the cache empty, blocks and block_resampler are still None
\* afterwards, so no partially built partition or resampler is cached and
\* the next draw starts generation afresh.
C28_NoCacheAfterRaise ==
    \A i \in Insts :
        boot[i].pc = "raised" =>
            /\ boot[i].blocks = <<>>
            /\ boot[i].block_resampler = NoResampler
            /\ MustGenerate(boot[i])

C28_Witness ==
    \E i \in Insts :
        /\ boot[i].pc = "raised"
        /\ boot[i].gen.finished /\ Len(boot[i].gen.blocks) >= 2
        /\ boot[i].block_weights.present
        /\ boot[i].blocks = <<>>

\* C29: in every draw of a BlockBootstrap with
\* combine_generation_and_sampling_flag=False the partition used was
\* generated for the array X passed to that draw and under the instance's
\* current configuration: after any sequence of draws with arrays of
\* different lengths, or with block_length changed between draws, every
\* index returned is < X.shape[0] of the current X and the returned sample
\* has X.shape[0] rows.
C29_PartitionOfCurrentArray ==
    \A i \in Insts :
        (Returned(boot[i]) /\ ~boot[i].combine_generation_and_sampling_flag) =>
            /\ boot[i].res.N = boot[i].X.n
            /\ \A k \in DOMAIN Concat(boot[i].drawn) :
                   Concat(boot[i].drawn)[k] < boot[i].X.n
            /\ Len(Concat(boot[i].data)) = boot[i].X.n

\* C30: whenever split reaches block generation on a BlockBootstrap with an
\* explicit block_length, that block_length is <= the number of rows of the
\* array the blocks are generated for (the training portion produced by the
\* train/test split), because _check_input has already rejected every
\* larger block_length with ValueError.
C30_BlockLengthFitsTrainRows ==
    \A i \in Insts :
        (boot[i].calls >= 1 /\ boot[i].block_length # None) =>
            /\ boot[i].X.n = TrainRows(arr.n)
            /\ boot[i].block_length <= boot[i].X.n

====
